---- MODULE Spec2Model ----
(***************************************************************************)
(* ZIP: a UDP "bank".  The server keeps one ClientInfo record per source   *)
(* IP in a LockedMap and serves every datagram in its own worker thread;   *)
(* clients discover the server and then send transfers under stop-and-wait.*)
(*                                                                         *)
(* Spec     the server pipeline (server.cpp) with the clients (client.cpp) *)
(*          over a datagram network that loses, reorders and duplicates.   *)
(*          Every LockedMap call of a worker is one step.                  *)
(* SpecMap  the LockedMap itself (locked_map.h) at the granularity of the  *)
(*          per-entry lock operations, driven by threads that issue        *)
(*          arbitrary calls.                                               *)
(*                                                                         *)
(* A uint32_t is held as the int32 with the same bit pattern, so that      *)
(* 0 - 1 is the model's value of 2^32 - 1; unsigned order is U32Less.      *)
(***************************************************************************)
EXTENDS Integers, FiniteSets, Sequences, Bags, TLC

\* ---------------------------------------------------------------- bounds
NumClients == 2
NumWorkers == 2
MaxRequestId == 2
MaxLines == 2
MaxSends == 4
NumThreads == 2
MaxOps == 2
MaxDatagrams == 4
NumCallers == 3
MaxLiveLines == 1

\* ------------------------------------------------------ program constants
CLIENT_INITIAL_BALANCE == 100
\* sizeof(Packet), x86-64 System V ABI
PacketSize == 204

IPs == 1..NumClients
Workers == 1..NumWorkers
\* transfer values a user line can carry
Values == {0, 60}

VARIABLES
    clients,              \* LockedMap data: key -> Entry::value
    active_readers,       \* Entry::active_readers, per key
    writer_active,        \* Entry::writer_active, per key
    waiting_writers,      \* Entry::waiting_writers, per key
    addr,                 \* Entry address (the order atomic_pair_operation uses), per key
    s_num_transactions,
    s_total_transferred,
    s_total_balance,
    wk,                   \* server worker threads
    requests,             \* datagrams on their way to the server (a bag)
    replies,              \* datagrams sent to the clients
    cl,                   \* client processes: main thread and network thread
    applied,              \* history: how often the transfer lambda ran for (source, request id)
    first_reply,          \* history: the first reply sent for (source, request id)
    th,                   \* SpecMap: threads calling the LockedMap
    arrived,              \* SpecServer: datagrams received so far, per datagram length
    answered,             \* history: each reply sent, with the request id of the datagram served
    stats_history         \* SpecLog history: the triples the statistics have held

vars == <<clients, active_readers, writer_active, waiting_writers, addr,
          s_num_transactions, s_total_transferred, s_total_balance,
          wk, requests, replies, cl, applied, first_reply, th, arrived, answered,
          stats_history>>

lockVars == <<active_readers, writer_active, waiting_writers, addr>>
histVars == <<applied, first_reply>>
statVars == <<s_num_transactions, s_total_transferred, s_total_balance>>

\* ------------------------------------------------------------ uint32_t
U32Less(a, b) == IF (a >= 0) = (b >= 0) THEN a < b ELSE a >= 0
U32LessEq(a, b) == a = b \/ U32Less(a, b)

\* ------------------------------------------------------------- packets
ClientInfo == [last_processed_request_id |-> 0, balance |-> CLIENT_INITIAL_BALANCE]

create_request(type, request_id, dest_ip, value) ==
    [type |-> type, request_id |-> request_id, destination_ip |-> dest_ip, value |-> value]

create_reply(type, request_id, balance) ==
    [type |-> type, request_id |-> request_id, new_balance |-> balance]

NoPacket == create_request("NONE", 0, 0, 0)

\* a datagram on the wire: the packet and the address the socket reports
Datagram(from, to, packet) == [from |-> from, to |-> to, packet |-> packet]

ServerAddr == 0

\* sockaddr_in{}: 0.0.0.0, which is no host's address
AnyAddr == -1

\* ---------------------------------------------- LockedMap, whole calls
Contains(map, key) == key \in DOMAIN map

\* faulty variant: insert reports success for a key that is already present
InsertAlwaysTrue(map, key) == TRUE

InsertResult(map, key) == ~Contains(map, key)

\* faulty variant: insert stores the value whether or not the key is present
InsertOverwrite(map, key, value) == (key :> value) @@ map

Insert(map, key, value) == IF Contains(map, key) THEN map ELSE (key :> value) @@ map

Write(map, key, value) == IF Contains(map, key) THEN [map EXCEPT ![key] = value] ELSE map

\* faulty variant: the lambda debits the sender and forgets the receiver
TransferDebitOnly(src, dest, value) == <<[src EXCEPT !.balance = @ - value], dest>>

\* the lambda of handle_transaction
Transfer(src, dest, value) ==
    <<[src EXCEPT !.balance = @ - value], [dest EXCEPT !.balance = @ + value]>>

AtomicPairOperation(map, key1, key2, value) ==
    IF ~Contains(map, key1) \/ ~Contains(map, key2) THEN map
    ELSE IF key1 = key2
         THEN LET r == Transfer(map[key1], map[key1], value)
              IN  [map EXCEPT ![key1] = [r[1] EXCEPT !.balance = @ + value]]
         ELSE LET r == Transfer(map[key1], map[key2], value)
              IN  [map EXCEPT ![key1] = r[1], ![key2] = r[2]]

\* ------------------------------------------------------- server workers
IdleWorker == [pc |-> "idle", packet |-> NoPacket, client_addr |-> 0,
               src_client |-> ClientInfo, client_new_balance |-> 0, replay |-> FALSE,
               line |-> <<>>]

\* server_socket.send
Send(to, packet) == replies' = replies \cup {Datagram(ServerAddr, to, packet)}

\* history: the reply packet is the answer to a datagram that carried request
Answer(to, request, packet) ==
    answered' = answered \cup {[to |-> to, request_id |-> request.request_id, packet |-> packet]}

\* a reply of handle_transaction; the history keeps the first one of each request
Reply(src, request, packet) ==
    /\ Send(src, packet)
    /\ Answer(src, request, packet)
    /\ first_reply' = IF first_reply[src][request.request_id] = NoPacket
                      THEN [first_reply EXCEPT ![src][request.request_id] = packet]
                      ELSE first_reply

Finish(w) == wk' = [wk EXCEPT ![w] = IdleWorker]

Goto(w, pc) == wk' = [wk EXCEPT ![w].pc = pc]

\* worker threads are interchangeable: a new one takes the lowest free slot
FreeWorker ==
    CHOOSE w \in Workers : wk[w].pc = "idle" /\ \A v \in Workers : wk[v].pc = "idle" => w <= v

\* run_listening_loop + process_request: a worker thread serves datagram d
ProcessRequest(w, d, type) ==
    /\ \E v \in Workers : wk[v].pc = "idle"
    /\ w = FreeWorker
    /\ BagIn(d, requests)
    /\ d.packet.type = type
    /\ requests' = requests (-) SetToBag({d})

\* handle_client_discovery: clients.insert
DiscoveryInsert(w, d) ==
    /\ ProcessRequest(w, d, "CLIENT_DISCOVERY")
    /\ clients' = Insert(clients, d.from, ClientInfo)
    /\ wk' = [wk EXCEPT ![w] = [IdleWorker EXCEPT
                !.pc = IF InsertResult(clients, d.from) THEN "registered" ELSE "known",
                !.packet = d.packet, !.client_addr = d.from]]
    /\ UNCHANGED <<lockVars, statVars, replies, answered, cl, arrived, stats_history, histVars, th>>

\* handle_client_discovery: the statistics update and ACK of a new client
RegisterStatistics(w) ==
    /\ wk[w].pc = "registered"
    /\ s_total_balance' = s_total_balance + CLIENT_INITIAL_BALANCE
    /\ LET packet == create_reply("CLIENT_DISCOVERY_ACK",
                                  ClientInfo.last_processed_request_id, ClientInfo.balance)
       IN  Send(wk[w].client_addr, packet) /\ Answer(wk[w].client_addr, wk[w].packet, packet)
    /\ Finish(w)
    /\ UNCHANGED <<clients, lockVars, s_num_transactions, s_total_transferred,
                   requests, cl, arrived, histVars, th>>

DiscoveryRegistered(w) == RegisterStatistics(w) /\ UNCHANGED stats_history

\* history: the statistics hold a new triple
Held ==
    stats_history' = stats_history \cup
        {<<s_num_transactions', s_total_transferred', s_total_balance'>>}

\* handle_client_discovery as DiscoveryRegistered, with the statistics history kept
DiscoveryRegisteredLog(w) == RegisterStatistics(w) /\ Held

\* handle_client_discovery: the read and ACK for a known client
DiscoveryKnown(w) ==
    /\ wk[w].pc = "known"
    /\ LET client_info == clients[wk[w].client_addr]
           packet == create_reply("CLIENT_DISCOVERY_ACK",
                                  client_info.last_processed_request_id, client_info.balance)
       IN  Send(wk[w].client_addr, packet) /\ Answer(wk[w].client_addr, wk[w].packet, packet)
    /\ Finish(w)
    /\ UNCHANGED <<clients, lockVars, statVars, requests, cl, arrived, stats_history, histVars, th>>

\* the duplicate check of handle_transaction
IsDuplicate(request_id, src_client) ==
    U32LessEq(request_id, src_client.last_processed_request_id)

\* the reply handle_transaction sends for a duplicate
DuplicateReply(src_client) ==
    create_reply("TRANSACTION_ACK", src_client.last_processed_request_id, src_client.balance)

\* faulty variant: the error reply does not echo the request id
ErrorReplyWithoutId(packet) == create_reply("ERROR_ACK", 0, 0)

\* the reply handle_transaction sends when the source has no record
ErrorReply(packet) == create_reply("ERROR_ACK", packet.request_id, 0)

\* handle_transaction steps 1 and 2: read the source, reject unknown, replay duplicates
TransactionReadSource(w, d) ==
    /\ ProcessRequest(w, d, "TRANSACTION_REQUEST")
    /\ LET src == d.from
           packet == d.packet
       IN  IF ~Contains(clients, src)
           THEN /\ Reply(src, packet, ErrorReply(packet))
                /\ Finish(w)
           ELSE IF IsDuplicate(packet.request_id, clients[src])
           THEN /\ Reply(src, packet, DuplicateReply(clients[src]))
                /\ Finish(w)
           ELSE /\ wk' = [wk EXCEPT ![w] = [IdleWorker EXCEPT
                            !.pc = "claim", !.packet = packet, !.client_addr = src,
                            !.src_client = clients[src],
                            !.replay = first_reply[src][packet.request_id] # NoPacket]]
                /\ UNCHANGED <<replies, answered, first_reply>>
    /\ UNCHANGED <<clients, lockVars, statVars, cl, arrived, stats_history, applied, th>>

\* the record handle_transaction writes back to claim the request id
ClaimedRecord(src_client, request_id) ==
    [src_client EXCEPT !.last_processed_request_id = request_id]

\* handle_transaction step 3 and the zero-value fast path
TransactionClaim(w) ==
    /\ wk[w].pc = "claim"
    /\ LET src == wk[w].client_addr
           packet == wk[w].packet
           src_client == ClaimedRecord(wk[w].src_client, packet.request_id)
       IN  /\ clients' = Write(clients, src, src_client)
           /\ IF packet.value = 0
              THEN /\ Reply(src, packet, create_reply("TRANSACTION_ACK", packet.request_id,
                                                      src_client.balance))
                   /\ Finish(w)
              ELSE /\ wk' = [wk EXCEPT ![w].pc = "validate", ![w].src_client = src_client]
                   /\ UNCHANGED <<replies, answered, first_reply>>
    /\ UNCHANGED <<lockVars, statVars, requests, cl, arrived, stats_history, applied, th>>

\* handle_transaction: what the checks after the claim decide
Validate(map, src, packet, src_client) ==
    IF ~Contains(map, packet.destination_ip) THEN "INVALID_CLIENT_ACK"
    ELSE IF src = packet.destination_ip THEN "TRANSACTION_ACK"
    ELSE IF U32Less(src_client.balance, packet.value) THEN "INSUFFICIENT_BALANCE_ACK"
    ELSE "transfer"

\* handle_transaction: destination read, self-transfer and solvency checks
TransactionValidate(w) ==
    /\ wk[w].pc = "validate"
    /\ LET src == wk[w].client_addr
           packet == wk[w].packet
           src_client == wk[w].src_client
           outcome == Validate(clients, src, packet, src_client)
       IN  IF outcome = "transfer"
           THEN Goto(w, "transfer") /\ UNCHANGED <<replies, answered, first_reply>>
           ELSE /\ Reply(src, packet,
                         create_reply(outcome, src_client.last_processed_request_id,
                                      src_client.balance))
                /\ Finish(w)
    /\ UNCHANGED <<clients, lockVars, statVars, requests, cl, arrived, stats_history, applied, th>>

\* handle_transaction: the atomic_pair_operation call
TransactionTransfer(w) ==
    /\ wk[w].pc = "transfer"
    /\ LET src == wk[w].client_addr
           packet == wk[w].packet
       IN  /\ clients' = AtomicPairOperation(clients, src, packet.destination_ip, packet.value)
           /\ wk' = [wk EXCEPT ![w].pc = "statistics",
                               ![w].client_new_balance = clients'[src].balance]
           /\ applied' = [applied EXCEPT ![src][packet.request_id] = @ + 1]
    /\ UNCHANGED <<lockVars, statVars, requests, replies, answered, cl, arrived, stats_history, first_reply, th>>

\* s_num_transactions++
CountTransaction(num_transactions) == num_transactions + 1

\* faulty variant: the statistic adds the request id instead of the value
AddRequestId(total_transferred, packet) == total_transferred + packet.request_id

\* s_total_transferred += packet.payload.request.value
AddTransferred(total_transferred, packet) == total_transferred + packet.value

\* handle_transaction: statistics under s_stats_mutex, then the success ACK
Statistics(w) ==
    /\ wk[w].pc = "statistics"
    /\ s_num_transactions' = CountTransaction(s_num_transactions)
    /\ s_total_transferred' = AddTransferred(s_total_transferred, wk[w].packet)
    /\ Reply(wk[w].client_addr, wk[w].packet,
             create_reply("TRANSACTION_ACK", wk[w].src_client.last_processed_request_id,
                          wk[w].client_new_balance))
    /\ UNCHANGED <<clients, lockVars, s_total_balance, requests, cl, arrived, applied, th>>

\* the console output of the server is left out
TransactionStatistics(w) == Statistics(w) /\ Finish(w) /\ UNCHANGED stats_history

\* ------------------------------------------ server workers with their log
\* the statistics fields print_request is passed
StatFields == {"num_transactions", "total_transferred", "total_balance"}

StatValue(field) ==
    IF field = "num_transactions" THEN s_num_transactions
    ELSE IF field = "total_transferred" THEN s_total_transferred
    ELSE s_total_balance

\* handle_transaction with the statistics history and the request line kept:
\* after the ACK the worker goes on to print_request
TransactionStatisticsLog(w) ==
    /\ Statistics(w)
    /\ Held
    /\ Goto(w, "log_request")

\* handle_transaction steps 1 and 2 with the request line kept: a duplicate
\* is logged before it is answered
TransactionReadSourceLog(w, d) ==
    /\ ProcessRequest(w, d, "TRANSACTION_REQUEST")
    /\ LET src == d.from
           packet == d.packet
       IN  IF ~Contains(clients, src)
           THEN /\ Reply(src, packet, ErrorReply(packet))
                /\ Finish(w)
           ELSE /\ wk' = [wk EXCEPT ![w] = [IdleWorker EXCEPT
                            !.pc = IF IsDuplicate(packet.request_id, clients[src])
                                   THEN "log_duplicate" ELSE "claim",
                            !.packet = packet, !.client_addr = src,
                            !.src_client = clients[src],
                            !.replay = first_reply[src][packet.request_id] # NoPacket]]
                /\ UNCHANGED <<replies, answered, first_reply>>
    /\ UNCHANGED <<clients, lockVars, statVars, cl, arrived, stats_history, applied, th>>

\* print_request(..., s_num_transactions, s_total_transferred, s_total_balance):
\* the arguments are read one by one, in no fixed order, without s_stats_mutex
LogRead(w, field) ==
    /\ wk[w].pc \in {"log_request", "log_duplicate"}
    /\ field \in StatFields \ DOMAIN wk[w].line
    /\ wk' = [wk EXCEPT ![w].line = (field :> StatValue(field)) @@ @]
    /\ UNCHANGED <<clients, lockVars, statVars, requests, replies, answered, cl, arrived,
                   stats_history, histVars, th>>

\* the request line of a served transfer is printed; the handler returns
LogRequest(w) ==
    /\ wk[w].pc = "log_request"
    /\ DOMAIN wk[w].line = StatFields
    /\ Finish(w)
    /\ UNCHANGED <<clients, lockVars, statVars, requests, replies, answered, cl, arrived,
                   stats_history, histVars, th>>

\* the request line of a duplicate is printed; then the duplicate is answered
LogDuplicate(w) ==
    /\ wk[w].pc = "log_duplicate"
    /\ DOMAIN wk[w].line = StatFields
    /\ Reply(wk[w].client_addr, wk[w].packet, DuplicateReply(wk[w].src_client))
    /\ Finish(w)
    /\ UNCHANGED <<clients, lockVars, statVars, requests, cl, arrived, stats_history,
                   applied, th>>

\* -------------------------------------------------------------- clients
NewClient == [pc |-> "discover", sends |-> 0, next_request_id |-> 1, pending_ack_request_id |-> 0,
              pending_request_packet |-> NoPacket, net |-> "receive",
              response_packet |-> NoPacket, server_addr |-> AnyAddr, printed |-> {}]

\* datagrams the clients have sent so far
Sent == LET n[S \in SUBSET IPs] ==
              IF S = {} THEN 0
              ELSE LET c == CHOOSE x \in S : TRUE IN n[S \ {c}] + cl[c].sends
        IN  n[IPs]

\* UDPSocket::send of a client
SocketSend(d) == Sent < MaxSends /\ requests' = requests (+) SetToBag({d})

\* discover_server / connect_to_known_server: (re)send CLIENT_DISCOVERY
DiscoverSend(c) ==
    /\ cl[c].pc = "discover"
    /\ SocketSend(Datagram(c, ServerAddr, create_request("CLIENT_DISCOVERY", 0, 0, 0)))
    /\ cl' = [cl EXCEPT ![c].sends = @ + 1]
    /\ UNCHANGED <<clients, lockVars, statVars, wk, replies, answered, histVars, th, arrived, stats_history>>

\* faulty variant: any packet ends the discovery
AnyPacketType(packet) == TRUE

\* discover_server: response_packet.type == DISCOVERY_ACK
IsDiscoveryAck(packet) == packet.type = "CLIENT_DISCOVERY_ACK"

\* discover_server / connect_to_known_server: poll for the CLIENT_DISCOVERY_ACK
DiscoverReceive(c, d) ==
    /\ cl[c].pc = "discover"
    /\ d \in replies /\ d.to = c
    /\ IF IsDiscoveryAck(d.packet)
       THEN cl' = [cl EXCEPT ![c].pc = "input", ![c].server_addr = d.from]
       ELSE UNCHANGED cl
    /\ UNCHANGED <<clients, lockVars, statVars, wk, requests, replies, answered, histVars, th, arrived, stats_history>>

\* user lines turned into requests so far, over all clients
LinesRead == LET n[S \in SUBSET IPs] ==
                   IF S = {} THEN 0
                   ELSE LET c == CHOOSE x \in S : TRUE
                        IN  n[S \ {c}] + cl[c].next_request_id - 1
                                       + (IF cl[c].pc = "wait" THEN 1 ELSE 0)
             IN  n[IPs]

\* faulty variant: the loop forgets next_request_id++
NextLineSameId(client) == [client EXCEPT !.pc = "input"]

\* run_user_input_loop after send_request returned
NextLine(client) == [client EXCEPT !.pc = "input", !.next_request_id = @ + 1]

\* faulty variant: the failed request stays pending
AbortStillPending(client) == client

\* send_request, send failed: pending_ack_request_id.store(0); return
Abort(client) == [client EXCEPT !.pending_ack_request_id = 0]

\* run_user_input_loop + send_request up to the first wait_for
\* (sent = FALSE: client_socket.send failed)
SendRequest(c, dest, value, sent) ==
    /\ cl[c].pc = "input"
    /\ cl[c].next_request_id <= MaxRequestId
    /\ LinesRead < MaxLines
    /\ LET packet == create_request("TRANSACTION_REQUEST", cl[c].next_request_id, dest, value)
           stored == [cl[c] EXCEPT !.pending_ack_request_id = packet.request_id,
                                   !.pending_request_packet = packet]
       IN  IF sent
           THEN /\ SocketSend(Datagram(c, cl[c].server_addr, packet))
                /\ cl' = [cl EXCEPT ![c] = [stored EXCEPT !.pc = "wait", !.sends = @ + 1]]
           ELSE /\ UNCHANGED requests
                /\ cl' = [cl EXCEPT ![c] = NextLine(Abort(stored))]
    /\ UNCHANGED <<clients, lockVars, statVars, wk, replies, answered, histVars, th, arrived, stats_history>>

\* faulty variant: the sender gives up at the first wakeup, acknowledged or not
NeverPending(client) == FALSE

\* send_request: the condition of the retransmission loop
StillPending(client) ==
    client.pending_ack_request_id = client.pending_request_packet.request_id

\* send_request: wait_for returns (notify, timeout or spurious wakeup)
WakeUp(c, sent) ==
    /\ cl[c].pc = "wait"
    /\ IF StillPending(cl[c])
       THEN IF sent
            THEN /\ SocketSend(Datagram(c, cl[c].server_addr, cl[c].pending_request_packet))
                 /\ cl' = [cl EXCEPT ![c].sends = @ + 1]
            ELSE /\ UNCHANGED requests
                 /\ cl' = [cl EXCEPT ![c] = NextLine(Abort(cl[c]))]
       ELSE /\ UNCHANGED requests
            /\ cl' = [cl EXCEPT ![c] = NextLine(cl[c])]
    /\ UNCHANGED <<clients, lockVars, statVars, wk, replies, answered, histVars, th, arrived, stats_history>>

\* faulty variant: every datagram is taken as the reply to the pending request
MatchesAny(packet, client) == TRUE

\* handle_server_responses: response_packet.request_id == pending_ack_request_id.load()
MatchesPending(packet, client) == packet.request_id = client.pending_ack_request_id

\* handle_server_responses: receive and the lock-free id comparison
ResponseReceive(c, d) ==
    /\ cl[c].pc # "discover"
    /\ cl[c].net = "receive"
    /\ d \in replies /\ d.to = c
    /\ IF MatchesPending(d.packet, cl[c])
       THEN cl' = [cl EXCEPT ![c].net = "matched", ![c].response_packet = d.packet]
       ELSE UNCHANGED cl
    /\ UNCHANGED <<clients, lockVars, statVars, wk, requests, replies, answered, histVars, th, arrived, stats_history>>

\* handle_server_responses: pending_ack_request_id.store(0) and back to receive
Accepted(client) ==
    [client EXCEPT !.pending_ack_request_id = 0, !.net = "receive",
                   !.response_packet = NoPacket]

\* handle_server_responses: clear the pending id under pending_request_mutex
\* (the main thread holds the mutex only inside SendRequest and WakeUp);
\* the console output is left out
ResponseAccept(c) ==
    /\ cl[c].net = "matched"
    /\ cl' = [cl EXCEPT ![c] = Accepted(cl[c])]
    /\ UNCHANGED <<clients, lockVars, statVars, wk, requests, replies, answered, histVars, th, arrived, stats_history>>

\* handle_server_responses: the output of the switch on the reply type; the
\* line for a TRANSACTION_ACK shows the request held in pending_request_packet
\* at that moment (read without the mutex), the other lines are fixed texts and
\* a type the switch does not list prints nothing; id notes the reply the line
\* is printed for
ReplyLine(client) ==
    IF client.response_packet.type = "TRANSACTION_ACK"
    THEN {[type |-> "TRANSACTION_ACK", request |-> client.pending_request_packet,
           id |-> client.response_packet.request_id]}
    ELSE IF client.response_packet.type \in
               {"INSUFFICIENT_BALANCE_ACK", "INVALID_CLIENT_ACK", "ERROR_ACK"}
         THEN {[type |-> client.response_packet.type, request |-> NoPacket,
                id |-> client.response_packet.request_id]}
         ELSE {}

\* handle_server_responses with the console output kept: the store of 0 under
\* pending_request_mutex; the mutex is released before the switch
ResponseClear(c) ==
    /\ cl[c].net = "matched"
    /\ cl' = [cl EXCEPT ![c].pending_ack_request_id = 0, ![c].net = "print"]
    /\ UNCHANGED <<clients, lockVars, statVars, wk, requests, replies, answered, histVars, th, arrived, stats_history>>

\* handle_server_responses with the console output kept: the switch, after the
\* mutex was released
ResponsePrint(c) ==
    /\ cl[c].net = "print"
    /\ cl' = [cl EXCEPT ![c].net = "receive", ![c].response_packet = NoPacket,
                        ![c].printed = @ \cup ReplyLine(cl[c])]
    /\ UNCHANGED <<clients, lockVars, statVars, wk, requests, replies, answered, histVars, th, arrived, stats_history>>

\* ------------------------------------- clients that never stop resending
\* UDPSocket::send that succeeds, over a channel that keeps one copy of a
\* datagram in flight: a copy sent while one is in flight is lost
ChannelSend(d) ==
    requests' = IF BagIn(d, requests) THEN requests ELSE requests (+) SetToBag({d})

\* the channel loses a datagram in flight
Lose(d) ==
    /\ BagIn(d, requests)
    /\ requests' = requests (-) SetToBag({d})
    /\ UNCHANGED <<clients, lockVars, statVars, wk, replies, answered, cl, histVars, th,
                   arrived, stats_history>>

\* run_user_input_loop + send_request up to the first wait_for, the send succeeds
SendRequestSent(c, dest, value) ==
    /\ cl[c].pc = "input"
    /\ cl[c].next_request_id <= MaxLiveLines
    /\ LET packet == create_request("TRANSACTION_REQUEST", cl[c].next_request_id, dest, value)
       IN  /\ ChannelSend(Datagram(c, cl[c].server_addr, packet))
           /\ cl' = [cl EXCEPT ![c].pending_ack_request_id = packet.request_id,
                               ![c].pending_request_packet = packet,
                               ![c].pc = "wait"]
    /\ UNCHANGED <<clients, lockVars, statVars, wk, replies, answered, histVars, th, arrived, stats_history>>

\* send_request: wait_for returns and the loop resends or ends, the send succeeds
WakeUpSent(c) ==
    /\ cl[c].pc = "wait"
    /\ IF StillPending(cl[c])
       THEN /\ ChannelSend(Datagram(c, cl[c].server_addr, cl[c].pending_request_packet))
            /\ UNCHANGED cl
       ELSE /\ UNCHANGED requests
            /\ cl' = [cl EXCEPT ![c] = NextLine(cl[c])]
    /\ UNCHANGED <<clients, lockVars, statVars, wk, replies, answered, histVars, th, arrived, stats_history>>

\* --------------------------------------------- the clients on their own
\* a host that is not the server
OtherHost == NumClients + 1

\* what a datagram received by client 1 can hold: any host may send any packet
ReplyDatagrams ==
    {Datagram(h, 1, create_reply("CLIENT_DISCOVERY_ACK", 0, CLIENT_INITIAL_BALANCE)) :
        h \in {ServerAddr, OtherHost}} \cup
    {Datagram(h, 1, create_reply("TRANSACTION_ACK", 1, CLIENT_INITIAL_BALANCE)) :
        h \in {ServerAddr, OtherHost}}

\* a datagram reaches the socket of its addressee
Deliver(d) ==
    /\ d \notin replies
    /\ replies' = replies \cup {d}
    /\ UNCHANGED <<clients, lockVars, statVars, wk, requests, answered, cl, arrived, stats_history, histVars, th>>

\* --------------------------------------------- the server on its own
\* values a received TRANSACTION_REQUEST can carry (one above any balance reached)
RequestValues == {0, 60, 120}

\* what a datagram received by the server can hold: any host may send any packet
Datagrams ==
    {Datagram(c, ServerAddr, create_request("CLIENT_DISCOVERY", 0, 0, 0)) : c \in IPs}
    \cup {Datagram(c, ServerAddr, create_request("TRANSACTION_REQUEST", r, dest, value)) :
             c \in IPs, r \in 1..MaxRequestId, dest \in IPs, value \in RequestValues}

\* lengths of the datagrams that reach the server socket
DatagramLengths == {PacketSize - 1, PacketSize, PacketSize + 1}

Received == arrived[PacketSize - 1] + arrived[PacketSize] + arrived[PacketSize + 1]

\* recvfrom(sock_fd, buffer, size, 0, ...) on a datagram of len bytes, as
\* UDPSocket::receive returns it: a datagram longer than the buffer is cut to
\* size bytes (POSIX) or refused with WSAEMSGSIZE, which receive turns into -1
\* (Winsock)
RecvFrom(len, size) == IF len <= size THEN {len} ELSE {size, -1}

\* run_listening_loop: a datagram of len bytes reaches the server socket; d is
\* the packet its first sizeof(packet) bytes make up
Arrive(d, len, bytes_received) ==
    /\ Received < MaxDatagrams
    /\ bytes_received \in RecvFrom(len, PacketSize)
    /\ arrived' = [arrived EXCEPT ![len] = @ + 1]
    /\ requests' = IF bytes_received = PacketSize THEN requests (+) SetToBag({d})
                   ELSE requests
    /\ UNCHANGED <<clients, lockVars, statVars, wk, replies, answered, cl, histVars, th,
                   stats_history>>

\* ------------------------------------- LockedMap, per-entry lock steps
Threads == 1..NumThreads
\* values a caller of insert() brings
InsertValues == {ClientInfo, [last_processed_request_id |-> 0, balance |-> 0]}
\* values a caller of write() stores
WriteValues == {[last_processed_request_id |-> 1, balance |-> CLIENT_INITIAL_BALANCE]}
\* amounts the callback of atomic_pair_operation moves
PairValues == {60}

IdleThread == [pc |-> "idle", op |-> "none", key1 |-> 0, key2 |-> 0, value |-> ClientInfo,
               amount |-> 0, todo |-> <<>>, held |-> <<>>, calls |-> 0,
               result |-> "none", copy |-> ClientInfo]

Return(t, result) ==
    th' = [th EXCEPT ![t] = [IdleThread EXCEPT !.calls = th[t].calls, !.result = result,
                                              !.op = th[t].op, !.copy = th[t].copy]]

\* a thread enters one of the public operations
Enter(t, op, key1, key2, value, amount) ==
    /\ th[t].pc = "idle"
    /\ th' = [th EXCEPT ![t] = [IdleThread EXCEPT !.pc = op, !.op = op, !.key1 = key1,
                                  !.key2 = key2, !.value = value, !.amount = amount,
                                  !.calls = th[t].calls]]
    /\ UNCHANGED <<clients, lockVars, statVars, wk, requests, replies, answered, cl, arrived, stats_history, histVars>>

\* one of a bounded number of calls of a thread
Call(t, op, key1, key2, value, amount) ==
    /\ th[t].pc = "idle"
    /\ th[t].calls < MaxOps
    /\ th' = [th EXCEPT ![t] = [IdleThread EXCEPT !.pc = op, !.op = op, !.key1 = key1,
                                  !.key2 = key2, !.value = value, !.amount = amount,
                                  !.calls = th[t].calls + 1]]
    /\ UNCHANGED <<clients, lockVars, statVars, wk, requests, replies, answered, cl, arrived, stats_history, histVars>>

\* LockedMap::insert, under map_mutex; the new Entry gets a free address
MapInsert(t, a) ==
    /\ th[t].pc = "insert"
    /\ clients' = Insert(clients, th[t].key1, th[t].value)
    /\ IF Contains(clients, th[t].key1)
       THEN UNCHANGED addr
       ELSE /\ a \notin {addr[k] : k \in DOMAIN clients}
            /\ addr' = [addr EXCEPT ![th[t].key1] = a]
    /\ Return(t, IF InsertResult(clients, th[t].key1) THEN "true" ELSE "false")
    /\ UNCHANGED <<active_readers, writer_active, waiting_writers,
                   statVars, wk, requests, replies, answered, cl, arrived, stats_history, histVars>>

\* LockedMap::read up to get_entry
ReadGetEntry(t) ==
    /\ th[t].pc = "read"
    /\ IF Contains(clients, th[t].key1)
       THEN th' = [th EXCEPT ![t].pc = "lock_read"]
       ELSE Return(t, "nullopt")
    /\ UNCHANGED <<clients, lockVars, statVars, wk, requests, replies, answered, cl, arrived, stats_history, histVars>>

\* faulty variant: a reader that only yields to the active writer
CanReadBesideWaiting(k) == ~writer_active[k]

\* faulty variant: a reader that only yields to waiting writers
CanReadBesideWriter(k) == waiting_writers[k] = 0

\* the predicate lock_read waits for
CanRead(k) == ~writer_active[k] /\ waiting_writers[k] = 0

\* Entry::lock_read
LockRead(t) ==
    /\ th[t].pc = "lock_read"
    /\ CanRead(th[t].key1)
    /\ active_readers' = [active_readers EXCEPT ![th[t].key1] = @ + 1]
    /\ th' = [th EXCEPT ![t].pc = "copy"]
    /\ UNCHANGED <<clients, writer_active, waiting_writers, addr,
                   statVars, wk, requests, replies, answered, cl, arrived, stats_history, histVars>>

\* LockedMap::read: V value_copy = entry_ptr->value
ReadCopy(t) ==
    /\ th[t].pc = "copy"
    /\ th' = [th EXCEPT ![t].pc = "unlock_read", ![t].copy = clients[th[t].key1]]
    /\ UNCHANGED <<clients, lockVars, statVars, wk, requests, replies, answered, cl, arrived, stats_history, histVars>>

\* Entry::unlock_read
UnlockRead(t) ==
    /\ th[t].pc = "unlock_read"
    /\ active_readers' = [active_readers EXCEPT ![th[t].key1] = @ - 1]
    /\ Return(t, "value")
    /\ UNCHANGED <<clients, writer_active, waiting_writers, addr,
                   statVars, wk, requests, replies, answered, cl, arrived, stats_history, histVars>>

\* LockedMap::write up to get_entry
WriteGetEntry(t) ==
    /\ th[t].pc = "write"
    /\ IF Contains(clients, th[t].key1)
       THEN th' = [th EXCEPT ![t].pc = "lock_write", ![t].todo = <<th[t].key1>>]
       ELSE Return(t, "false")
    /\ UNCHANGED <<clients, lockVars, statVars, wk, requests, replies, answered, cl, arrived, stats_history, histVars>>

\* faulty variant: the locks are taken in argument order
ArgumentOrder(key1, key2) == <<key1, key2>>

\* the order in which atomic_pair_operation locks two distinct entries
LockOrder(key1, key2) == IF addr[key1] < addr[key2] THEN <<key1, key2>> ELSE <<key2, key1>>

\* faulty variant: the test for one and the same entry is missing
PairLocksNoSelfTest(key1, key2) == LockOrder(key1, key2)

\* atomic_pair_operation: one lock if both keys resolve to the same entry,
\* otherwise both in lock order
PairLocks(key1, key2) == IF key1 = key2 THEN <<key1>> ELSE LockOrder(key1, key2)

\* faulty variant: only the first key is looked up
FirstMissing(map, key1, key2) == ~Contains(map, key1)

\* atomic_pair_operation: it1 == data.end() || it2 == data.end()
PairMissing(map, key1, key2) == ~Contains(map, key1) \/ ~Contains(map, key2)

\* atomic_pair_operation: the lookup under map_mutex and the choice of the locks
PairLookup(t) ==
    /\ th[t].pc = "pair"
    /\ IF PairMissing(clients, th[t].key1, th[t].key2)
       THEN Return(t, "false")
       ELSE th' = [th EXCEPT ![t].pc = "lock_write",
                             ![t].todo = PairLocks(th[t].key1, th[t].key2)]
    /\ UNCHANGED <<clients, lockVars, statVars, wk, requests, replies, answered, cl, arrived, stats_history, histVars>>

\* the predicate lock_write waits for
CanWrite(k) == ~writer_active[k] /\ active_readers[k] = 0

\* after lock_write returned: the next lock, or the critical section
Acquired(t) ==
    th' = [th EXCEPT ![t].pc = IF Len(th[t].todo) > 1 THEN "lock_write" ELSE "locked",
                     ![t].todo = Tail(@), ![t].held = <<Head(th[t].todo)>> \o @]

\* Entry::lock_write: waiting_writers++, then either the lock or the wait
LockWrite(t) ==
    /\ th[t].pc = "lock_write"
    /\ LET k == Head(th[t].todo)
       IN  IF CanWrite(k)
           THEN /\ writer_active' = [writer_active EXCEPT ![k] = TRUE]
                /\ Acquired(t)
                /\ UNCHANGED waiting_writers
           ELSE /\ waiting_writers' = [waiting_writers EXCEPT ![k] = @ + 1]
                /\ th' = [th EXCEPT ![t].pc = "wait_write"]
                /\ UNCHANGED writer_active
    /\ UNCHANGED <<clients, active_readers, addr, statVars, wk, requests, replies, answered, cl, arrived, stats_history, histVars>>

\* faulty variant: the writer that got the lock stays counted as waiting
StillWaiting(n) == n

\* Entry::lock_write after the wait: waiting_writers--
WaitOver(n) == n - 1

\* Entry::lock_write: the wait ends
LockWriteWake(t) ==
    /\ th[t].pc = "wait_write"
    /\ LET k == Head(th[t].todo)
       IN  /\ CanWrite(k)
           /\ waiting_writers' = [waiting_writers EXCEPT ![k] = WaitOver(@)]
           /\ writer_active' = [writer_active EXCEPT ![k] = TRUE]
           /\ Acquired(t)
    /\ UNCHANGED <<clients, active_readers, addr, statVars, wk, requests, replies, answered, cl, arrived, stats_history, histVars>>

\* LockedMap::write: entry_ptr->value = value;  atomic_pair_operation: fn(...)
Locked(t) ==
    /\ th[t].pc = "locked"
    /\ clients' = IF th[t].op = "write" THEN Write(clients, th[t].key1, th[t].value)
                  ELSE AtomicPairOperation(clients, th[t].key1, th[t].key2, th[t].amount)
    /\ th' = [th EXCEPT ![t].pc = "unlock_write"]
    /\ UNCHANGED <<lockVars, statVars, wk, requests, replies, answered, cl, arrived, stats_history, histVars>>

\* Entry::unlock_write, last acquired first
UnlockWrite(t) ==
    /\ th[t].pc = "unlock_write"
    /\ writer_active' = [writer_active EXCEPT ![Head(th[t].held)] = FALSE]
    /\ IF Len(th[t].held) > 1
       THEN th' = [th EXCEPT ![t].held = Tail(@)]
       ELSE Return(t, "true")
    /\ UNCHANGED <<clients, active_readers, waiting_writers, addr,
                   statVars, wk, requests, replies, answered, cl, arrived, stats_history, histVars>>

\* ------------------------------------------------------- specification
Init ==
    /\ clients = <<>>
    /\ active_readers = [k \in IPs |-> 0]
    /\ writer_active = [k \in IPs |-> FALSE]
    /\ waiting_writers = [k \in IPs |-> 0]
    /\ addr = [k \in IPs |-> 0]
    /\ s_num_transactions = 0
    /\ s_total_transferred = 0
    /\ s_total_balance = 0
    /\ wk = [w \in Workers |-> IdleWorker]
    /\ requests = EmptyBag
    /\ replies = {}
    /\ cl = [c \in IPs |-> NewClient]
    /\ applied = [c \in IPs |-> [r \in 1..MaxRequestId |-> 0]]
    /\ first_reply = [c \in IPs |-> [r \in 1..MaxRequestId |-> NoPacket]]
    /\ th = [t \in Threads |-> IdleThread]
    /\ arrived = [len \in DatagramLengths |-> 0]
    /\ answered = {}
    /\ stats_history = {<<0, 0, 0>>}

Next ==
    \/ \E w \in Workers : \E d \in BagToSet(requests) : DiscoveryInsert(w, d)
    \/ \E w \in Workers : DiscoveryRegistered(w)
    \/ \E w \in Workers : DiscoveryKnown(w)
    \/ \E w \in Workers : \E d \in BagToSet(requests) : TransactionReadSource(w, d)
    \/ \E w \in Workers : TransactionClaim(w)
    \/ \E w \in Workers : TransactionValidate(w)
    \/ \E w \in Workers : TransactionTransfer(w)
    \/ \E w \in Workers : TransactionStatistics(w)
    \/ \E c \in IPs : DiscoverSend(c)
    \/ \E c \in IPs : \E d \in replies : DiscoverReceive(c, d)
    \/ \E c \in IPs : \E dest \in IPs : \E value \in Values : \E sent \in BOOLEAN :
          SendRequest(c, dest, value, sent)
    \/ \E c \in IPs : \E sent \in BOOLEAN : WakeUp(c, sent)
    \/ \E c \in IPs : \E d \in replies : ResponseReceive(c, d)
    \/ \E c \in IPs : ResponseAccept(c)

Spec == Init /\ [][Next]_vars

NextServer ==
    \/ \E d \in Datagrams : Arrive(d, PacketSize, PacketSize)
    \/ \E w \in Workers : \E d \in BagToSet(requests) : DiscoveryInsert(w, d)
    \/ \E w \in Workers : DiscoveryRegistered(w)
    \/ \E w \in Workers : DiscoveryKnown(w)
    \/ \E w \in Workers : \E d \in BagToSet(requests) : TransactionReadSource(w, d)
    \/ \E w \in Workers : TransactionClaim(w)
    \/ \E w \in Workers : TransactionValidate(w)
    \/ \E w \in Workers : TransactionTransfer(w)
    \/ \E w \in Workers : TransactionStatistics(w)

SpecServer == Init /\ [][NextServer]_vars

\* a run of transfers of 60 to the other client over sockets that never fail,
\* with the clients' console output kept
NextRun ==
    \/ \E w \in Workers : \E d \in BagToSet(requests) : DiscoveryInsert(w, d)
    \/ \E w \in Workers : DiscoveryRegistered(w)
    \/ \E w \in Workers : DiscoveryKnown(w)
    \/ \E w \in Workers : \E d \in BagToSet(requests) : TransactionReadSource(w, d)
    \/ \E w \in Workers : TransactionClaim(w)
    \/ \E w \in Workers : TransactionValidate(w)
    \/ \E w \in Workers : TransactionTransfer(w)
    \/ \E w \in Workers : TransactionStatistics(w)
    \/ \E c \in IPs : DiscoverSend(c)
    \/ \E c \in IPs : \E d \in replies : DiscoverReceive(c, d)
    \/ \E c \in IPs : \E dest \in IPs \ {c} : SendRequest(c, dest, 60, TRUE)
    \/ \E c \in IPs : WakeUp(c, TRUE)
    \/ \E c \in IPs : \E d \in replies : ResponseReceive(c, d)
    \/ \E c \in IPs : ResponseClear(c)
    \/ \E c \in IPs : ResponsePrint(c)

SpecRun == Init /\ [][NextRun]_vars

NextClient ==
    \/ \E d \in ReplyDatagrams : Deliver(d)
    \/ \E c \in IPs : DiscoverSend(c)
    \/ \E c \in IPs : \E d \in replies : DiscoverReceive(c, d)
    \/ \E c \in IPs : \E dest \in IPs : \E value \in Values : \E sent \in BOOLEAN :
          SendRequest(c, dest, value, sent)
    \/ \E c \in IPs : \E sent \in BOOLEAN : WakeUp(c, sent)
    \/ \E c \in IPs : \E d \in replies : ResponseReceive(c, d)
    \/ \E c \in IPs : ResponseAccept(c)

SpecClient == Init /\ [][NextClient]_vars

\* the server fed with datagrams of any length
ListenDatagrams ==
    {Datagram(c, ServerAddr, create_request("CLIENT_DISCOVERY", 0, 0, 0)) : c \in IPs}
    \cup {Datagram(1, ServerAddr, create_request("TRANSACTION_REQUEST", 1, 2, 60))}

\* the server with its log, fed with discoveries and transfers of 60
LogDatagrams ==
    {Datagram(c, ServerAddr, create_request("CLIENT_DISCOVERY", 0, 0, 0)) : c \in IPs}
    \cup {Datagram(p[1], ServerAddr, create_request("TRANSACTION_REQUEST", 1, p[2], 60)) :
             p \in {q \in IPs \X IPs : q[1] # q[2]}}

NextLog ==
    \/ \E d \in LogDatagrams : Arrive(d, PacketSize, PacketSize)
    \/ \E w \in Workers : \E d \in BagToSet(requests) : DiscoveryInsert(w, d)
    \/ \E w \in Workers : DiscoveryRegisteredLog(w)
    \/ \E w \in Workers : DiscoveryKnown(w)
    \/ \E w \in Workers : \E d \in BagToSet(requests) : TransactionReadSourceLog(w, d)
    \/ \E w \in Workers : TransactionClaim(w)
    \/ \E w \in Workers : TransactionValidate(w)
    \/ \E w \in Workers : TransactionTransfer(w)
    \/ \E w \in Workers : TransactionStatisticsLog(w)
    \/ \E w \in Workers : \E field \in StatFields : LogRead(w, field)
    \/ \E w \in Workers : LogRequest(w)
    \/ \E w \in Workers : LogDuplicate(w)

SpecLog == Init /\ [][NextLog]_vars

\* the client whose user types transfers; the other one only receives them
Payer == 1

\* both clients have finished discover_server: each sent one CLIENT_DISCOVERY,
\* was inserted and got its CLIENT_DISCOVERY_ACK
Discovered ==
    [c \in IPs |-> [NewClient EXCEPT !.pc = "input", !.sends = 1, !.server_addr = ServerAddr]]

FirstAck ==
    create_reply("CLIENT_DISCOVERY_ACK", ClientInfo.last_processed_request_id, ClientInfo.balance)

InitLive ==
    /\ clients = [c \in IPs |-> ClientInfo]
    /\ active_readers = [k \in IPs |-> 0]
    /\ writer_active = [k \in IPs |-> FALSE]
    /\ waiting_writers = [k \in IPs |-> 0]
    /\ addr = [k \in IPs |-> 0]
    /\ s_num_transactions = 0
    /\ s_total_transferred = 0
    /\ s_total_balance = NumClients * CLIENT_INITIAL_BALANCE
    /\ wk = [w \in Workers |-> IdleWorker]
    /\ requests = EmptyBag
    /\ replies = {Datagram(ServerAddr, c, FirstAck) : c \in IPs}
    /\ cl = Discovered
    /\ applied = [c \in IPs |-> [r \in 1..MaxRequestId |-> 0]]
    /\ first_reply = [c \in IPs |-> [r \in 1..MaxRequestId |-> NoPacket]]
    /\ th = [t \in Threads |-> IdleThread]
    /\ arrived = [len \in DatagramLengths |-> 0]
    /\ answered = {[to |-> c, request_id |-> 0, packet |-> FirstAck] : c \in IPs}
    /\ stats_history = {<<0, 0, 0>>}

\* the steps of a server worker thread that holds a TRANSACTION_REQUEST
WorkerStep(w) ==
    \/ TransactionClaim(w)
    \/ TransactionValidate(w)
    \/ TransactionTransfer(w)
    \/ TransactionStatistics(w)

\* a worker thread takes datagram d from the server socket
Serve(d) == \E w \in Workers : TransactionReadSource(w, d)

\* every datagram the payer can send
ClientDatagrams ==
    {Datagram(Payer, ServerAddr, create_request("TRANSACTION_REQUEST", r, dest, 60)) :
        r \in 1..MaxLiveLines, dest \in IPs \ {Payer}}

\* the receiver thread of client c takes a reply that carries request id r
ReceiveReplyTo(c, r) ==
    \E d \in replies : d.packet.request_id = r /\ ResponseReceive(c, d)

NextLive ==
    \/ \E d \in BagToSet(requests) : Serve(d)
    \/ \E w \in Workers : WorkerStep(w)
    \/ \E d \in BagToSet(requests) : Lose(d)
    \/ \E dest \in IPs \ {Payer} : SendRequestSent(Payer, dest, 60)
    \/ WakeUpSent(Payer)
    \/ \E d \in replies : ResponseReceive(Payer, d)
    \/ ResponseAccept(Payer)

\* the threads keep running, the timer of wait_for keeps firing, and of the
\* datagrams sent again and again some are delivered
SpecLive ==
    /\ InitLive /\ [][NextLive]_vars
    /\ \A w \in Workers : WF_vars(WorkerStep(w))
    /\ \A d \in ClientDatagrams : SF_vars(Serve(d))
    /\ WF_vars(WakeUpSent(Payer))
    /\ \A r \in 0..MaxRequestId : SF_vars(ReceiveReplyTo(Payer, r))
    /\ WF_vars(ResponseAccept(Payer))

NextListen ==
    \/ \E d \in ListenDatagrams : \E len \in DatagramLengths :
          \E bytes_received \in RecvFrom(len, PacketSize) : Arrive(d, len, bytes_received)
    \/ \E w \in Workers : \E d \in BagToSet(requests) : DiscoveryInsert(w, d)
    \/ \E w \in Workers : DiscoveryRegistered(w)
    \/ \E w \in Workers : DiscoveryKnown(w)
    \/ \E w \in Workers : \E d \in BagToSet(requests) : TransactionReadSource(w, d)
    \/ \E w \in Workers : TransactionClaim(w)
    \/ \E w \in Workers : TransactionValidate(w)
    \/ \E w \in Workers : TransactionTransfer(w)
    \/ \E w \in Workers : TransactionStatistics(w)

SpecListen == Init /\ [][NextListen]_vars

NextMap ==
    \/ \E t \in Threads : \E k \in IPs : \E v \in InsertValues : Call(t, "insert", k, k, v, 0)
    \/ \E t \in Threads : \E k \in IPs : Call(t, "read", k, k, ClientInfo, 0)
    \/ \E t \in Threads : \E k \in IPs : \E v \in WriteValues : Call(t, "write", k, k, v, 0)
    \/ \E t \in Threads : \E k1, k2 \in IPs : \E a \in PairValues : Call(t, "pair", k1, k2, ClientInfo, a)
    \/ \E t \in Threads : \E a \in IPs : MapInsert(t, a)
    \/ \E t \in Threads : ReadGetEntry(t)
    \/ \E t \in Threads : LockRead(t)
    \/ \E t \in Threads : ReadCopy(t)
    \/ \E t \in Threads : UnlockRead(t)
    \/ \E t \in Threads : WriteGetEntry(t)
    \/ \E t \in Threads : PairLookup(t)
    \/ \E t \in Threads : LockWrite(t)
    \/ \E t \in Threads : LockWriteWake(t)
    \/ \E t \in Threads : Locked(t)
    \/ \E t \in Threads : UnlockWrite(t)

SpecMap == Init /\ [][NextMap]_vars

\* readers and writers that keep calling on a map whose keys are all present
Callers == 1..NumCallers

InitRW ==
    /\ clients = [k \in IPs |-> ClientInfo]
    /\ active_readers = [k \in IPs |-> 0]
    /\ writer_active = [k \in IPs |-> FALSE]
    /\ waiting_writers = [k \in IPs |-> 0]
    /\ addr = [k \in IPs |-> k]
    /\ s_num_transactions = 0
    /\ s_total_transferred = 0
    /\ s_total_balance = 0
    /\ wk = [w \in Workers |-> IdleWorker]
    /\ requests = EmptyBag
    /\ replies = {}
    /\ cl = [c \in IPs |-> NewClient]
    /\ applied = [c \in IPs |-> [r \in 1..MaxRequestId |-> 0]]
    /\ first_reply = [c \in IPs |-> [r \in 1..MaxRequestId |-> NoPacket]]
    /\ th = [t \in Callers |-> IdleThread]
    /\ arrived = [len \in DatagramLengths |-> 0]
    /\ answered = {}
    /\ stats_history = {<<0, 0, 0>>}

\* the steps of thread t inside a read or write call
ThreadStep(t) ==
    \/ ReadGetEntry(t)
    \/ LockRead(t)
    \/ ReadCopy(t)
    \/ UnlockRead(t)
    \/ WriteGetEntry(t)
    \/ LockWrite(t)
    \/ LockWriteWake(t)
    \/ Locked(t)
    \/ UnlockWrite(t)

NextRW ==
    \/ \E t \in Callers : \E k \in IPs : Enter(t, "read", k, k, ClientInfo, 0)
    \/ \E t \in Callers : \E k \in IPs : \E v \in WriteValues : Enter(t, "write", k, k, v, 0)
    \/ \E t \in Callers : ThreadStep(t)

\* every thread inside a call keeps running; nobody has to call
SpecRW == InitRW /\ [][NextRW]_vars /\ \A t \in Callers : WF_vars(ThreadStep(t))

\* ================================================================ claims
Quiescent == \A w \in Workers : wk[w].pc = "idle"

Registered == DOMAIN clients

BalanceSum ==
    LET sum[S \in SUBSET Registered] ==
            IF S = {} THEN 0
            ELSE LET c == CHOOSE x \in S : TRUE IN sum[S \ {c}] + clients[c].balance
    IN  sum[Registered]

TotalApplied ==
    LET Pairs == IPs \X (1..MaxRequestId)
        sum[S \in SUBSET Pairs] ==
            IF S = {} THEN 0
            ELSE LET p == CHOOSE x \in S : TRUE IN sum[S \ {p}] + applied[p[1]][p[2]]
    IN  sum[Pairs]

At(pc) == {w \in Workers : wk[w].pc = pc}

\* C1: in every quiescent state (no worker inside a handler) the balances of all
\* client records add up to (number of registered clients) x INITIAL_BALANCE.
\* (A balance with the top bit set is >= 2^31 and so already exceeds that total.)
C1_MoneyConservation ==
    Quiescent =>
        /\ \A c \in Registered : clients[c].balance >= 0
        /\ BalanceSum = Cardinality(Registered) * CLIENT_INITIAL_BALANCE

\* C2: for every source S and request id R the transfer lambda of (S, R) runs at
\* most once, however many copies of the datagram the workers serve.
C2_AtMostOnce ==
    \A c \in IPs : \A r \in 1..MaxRequestId : applied[c][r] <= 1

\* C3: a copy of request (S, R) served after (S, R) has been answered changes
\* neither a client record nor a statistic, and is answered with the same
\* (request id, balance) pair as the first answer.
C3_Idempotent ==
    [][/\ \A w \in Workers :
            (wk[w].pc # "idle" /\ wk[w].replay /\ wk'[w] # wk[w])
                => (clients' = clients /\ statVars' = statVars)
       /\ \A d \in BagToSet(requests) :
            (/\ requests' = requests (-) SetToBag({d})
             /\ d.packet.type = "TRANSACTION_REQUEST"
             /\ first_reply[d.from][d.packet.request_id] # NoPacket
             /\ wk' = wk)
                => LET first == first_reply[d.from][d.packet.request_id]
                       second == DuplicateReply(clients[d.from])
                   IN  /\ second.request_id = first.request_id
                       /\ second.new_balance = first.new_balance]_vars

\* C4: last_processed_request_id of a client record never decreases.
C4_RequestIdMonotone ==
    [][\A c \in Registered :
            ~U32Less(clients'[c].last_processed_request_id,
                     clients[c].last_processed_request_id)]_vars

\* C5 as claimed: in every reachable state total_balance equals
\* (number of client records) x INITIAL_BALANCE.
C5_TotalBalanceEveryState ==
    s_total_balance = Cardinality(Registered) * CLIENT_INITIAL_BALANCE

\* C5 as amended: total_balance equals INITIAL_BALANCE x (number of client records
\* whose inserting discovery handler has passed its statistics update); the two
\* agree whenever no discovery handler is between insert and that update.
C5_TotalBalance ==
    s_total_balance =
        (Cardinality(Registered) - Cardinality(At("registered"))) * CLIENT_INITIAL_BALANCE

\* two discoveries from the same IP served at once, one of them the registering one
C5_Witness ==
    /\ \E w, v \in Workers : /\ wk[w].pc = "registered" /\ wk[v].pc = "known"
                             /\ wk[w].client_addr = wk[v].client_addr
    /\ Cardinality(Registered) = 2

\* C7: a request id is stored as pending only into an empty slot (0), and it is
\* the id after the one whose pending id was cleared: no two pending ids at once.
C7_OnePending ==
    [][\A c \in IPs :
            (/\ cl'[c].pending_ack_request_id # cl[c].pending_ack_request_id
             /\ cl'[c].pending_ack_request_id # 0)
                => /\ cl[c].pending_ack_request_id = 0
                   /\ cl'[c].pending_ack_request_id = cl[c].next_request_id]_vars

\* a second request is pending, after the first one's pending id was cleared by a reply
C7_Witness ==
    \E c \in IPs : /\ cl[c].pending_ack_request_id = 2
                   /\ first_reply[c][1] # NoPacket

\* C8: per source, the request ids written at the commit point of step 3 are
\* strictly increasing: each is above the id the record holds when it is written.
C8_CommitsIncrease ==
    [][\A w \in Workers :
            (wk[w].pc = "claim" /\ wk'[w].pc # "claim")
                => U32Less(clients[wk[w].client_addr].last_processed_request_id,
                           wk[w].packet.request_id)]_vars

\* C9: num_transactions and total_transferred never decrease, and change only in
\* the statistics step of a worker whose transfer atomic_pair_operation has
\* applied, by +1 and +V; every applied transfer is counted or about to be.
C9_StatisticsMonotone ==
    [][/\ s_num_transactions' >= s_num_transactions
       /\ s_total_transferred' >= s_total_transferred
       /\ TotalApplied = s_num_transactions + Cardinality(At("statistics"))
       /\ (s_num_transactions' # s_num_transactions
              \/ s_total_transferred' # s_total_transferred)
            => \E w \in Workers :
                  /\ wk[w].pc = "statistics" /\ wk'[w].pc = "idle"
                  /\ applied[wk[w].client_addr][wk[w].packet.request_id] >= 1
                  /\ s_num_transactions' = s_num_transactions + 1
                  /\ s_total_transferred' = s_total_transferred + wk[w].packet.value]_vars

\* a transfer of 60 has been applied and counted
C9_Witness ==
    /\ s_num_transactions = 1 /\ s_total_transferred = 60
    /\ TotalApplied = 1

\* ------------------------------------------------------ claims on SpecMap
InCall == {t \in Threads : th[t].pc # "idle"}

HeldBy(t) == {th[t].held[i] : i \in 1..Len(th[t].held)}

\* the entry whose lock thread t cannot get in this state, if any
BlockedOn(t) ==
    IF th[t].pc = "lock_read" /\ ~CanRead(th[t].key1) THEN {th[t].key1}
    ELSE IF th[t].pc \in {"lock_write", "wait_write"} /\ ~CanWrite(Head(th[t].todo))
         THEN {Head(th[t].todo)}
    ELSE {}

\* C6: no reachable state has a set of threads each waiting for an entry lock
\* that another thread of the set holds, and while calls are in progress one of
\* them can always take its next step.
C6_DeadlockFree ==
    /\ \A S \in SUBSET Threads :
          S # {} => \E t \in S : \A u \in S : BlockedOn(t) \cap HeldBy(u) = {}
    /\ InCall # {} => \E t \in InCall : th[t].pc = "lock_write" \/ BlockedOn(t) = {}

\* two pair operations on the same two keys in opposite argument order: one holds
\* both entries, the other waits for the entry that is first in the lock order
C6_Witness ==
    \E t, u \in Threads :
        /\ th[t].op = "pair" /\ th[u].op = "pair"
        /\ th[t].key1 = th[u].key2 /\ th[t].key2 = th[u].key1 /\ th[t].key1 # th[t].key2
        /\ th[t].pc = "wait_write" /\ Len(th[t].todo) = 2
        /\ th[u].pc = "locked" /\ Len(th[u].held) = 2
        /\ Head(th[t].todo) \in HeldBy(u)

\* C10: per entry, at most one thread holds the write lock, writer_active holds
\* exactly then and implies active_readers = 0, and no read copies the value
\* while a write or a pair operation holds the entry.
C10_ReaderWriterExclusion ==
    \A k \in Registered :
        LET writers == {t \in Threads : k \in HeldBy(t)}
            copying == {t \in Threads : th[t].pc = "copy" /\ th[t].key1 = k}
        IN  /\ Cardinality(writers) <= 1
            /\ writer_active[k] <=> writers # {}
            /\ writer_active[k] => active_readers[k] = 0
            /\ writers # {} => copying = {}

\* a read is copying an entry while a write to the same entry waits for it
C10_Witness ==
    \E t, u \in Threads :
        /\ th[t].pc = "copy" /\ th[u].pc = "wait_write"
        /\ Head(th[u].todo) = th[t].key1

\* C13: an insert call returns true exactly when the key is absent; it then adds
\* the entry with the caller's value and touches nothing else; otherwise it
\* returns false and leaves every value and every lock field as it was. Entries
\* are never removed, so of all inserts of one key exactly the first returns true.
C13_InsertIffAbsent ==
    [][/\ DOMAIN clients \subseteq DOMAIN clients'
       /\ \A t \in Threads :
            (th[t].pc = "insert" /\ th'[t].pc = "idle")
                => LET k == th[t].key1
                   IN  IF k \in DOMAIN clients
                       THEN /\ th'[t].result = "false"
                            /\ clients' = clients
                            /\ lockVars' = lockVars
                       ELSE /\ th'[t].result = "true"
                            /\ DOMAIN clients' = DOMAIN clients \cup {k}
                            /\ clients'[k] = th[t].value
                            /\ \A j \in DOMAIN clients : clients'[j] = clients[j]
                            /\ active_readers' = active_readers
                            /\ writer_active' = writer_active
                            /\ waiting_writers' = waiting_writers]_vars

\* two inserts of the same key with different values are in flight at once,
\* and one of them has already created the entry
C13_Witness ==
    \E t, u \in Threads :
        /\ th[t].pc = "insert"
        /\ th[u].pc = "idle" /\ th[u].op = "insert" /\ th[u].result = "true"
        /\ th[t].key1 \in DOMAIN clients
        /\ clients[th[t].key1] # th[t].value
        /\ Cardinality(DOMAIN clients) = 1

\* C14: a read, write or atomic_pair_operation that names a key never inserted
\* returns at once (no value / false / false): it takes no entry lock, runs no
\* callback, creates no entry and leaves the map and all lock fields unchanged.
C14_MissingKey ==
    [][\A t \in Threads :
            (/\ th[t].pc \in {"read", "write", "pair"}
             /\ th'[t] # th[t]
             /\ (th[t].key1 \notin DOMAIN clients \/ th[t].key2 \notin DOMAIN clients))
                => /\ th'[t].pc = "idle"
                   /\ th'[t].result = (IF th[t].pc = "read" THEN "nullopt" ELSE "false")
                   /\ clients' = clients
                   /\ lockVars' = lockVars]_vars

\* a pair operation found one of its keys present and the other missing and
\* returned false, beside a read that returned no value
C14_Witness ==
    \E t, u \in Threads :
        /\ th[t].pc = "idle" /\ th[t].op = "pair" /\ th[t].result = "false"
        /\ th[u].pc = "idle" /\ th[u].op = "read" /\ th[u].result = "nullopt"
        /\ Cardinality(DOMAIN clients) = 1
        /\ clients[CHOOSE k \in DOMAIN clients : TRUE] \in InsertValues

\* thread t is inside atomic_pair_operation, past the lookup, on two distinct entries
PairOnTwo(t) ==
    th[t].op = "pair" /\ th[t].pc \notin {"idle", "pair"} /\ th[t].key1 # th[t].key2

\* the lower- and the higher-ordered entry (by entry address) of the call of t
Lower(t) == IF addr[th[t].key1] < addr[th[t].key2] THEN th[t].key1 ELSE th[t].key2
Higher(t) == IF addr[th[t].key1] < addr[th[t].key2] THEN th[t].key2 ELSE th[t].key1

PairOnOne(t) ==
    th[t].op = "pair" /\ th[t].pc \notin {"idle", "pair"} /\ th[t].key1 = th[t].key2

\* C31: atomic_pair_operation(k, k, fn) on an existing key takes the write lock
\* of that entry once, while holding no lock, runs fn once on the one value
\* (debit and credit on the same record), releases the lock and returns true.
C31_SelfPair ==
    [][\A t \in Threads : PairOnOne(t) =>
          LET k == th[t].key1
          IN  /\ th[t].pc \in {"lock_write", "wait_write"} =>
                     th[t].held = <<>> /\ th[t].todo = <<k>>
              /\ th[t].pc \in {"locked", "unlock_write"} =>
                     th[t].held = <<k>> /\ th[t].todo = <<>> /\ writer_active[k]
              /\ (th[t].pc \in {"lock_write", "wait_write"} /\ th'[t].held # th[t].held) =>
                     ~writer_active[k] /\ writer_active'[k] /\ th'[t].pc = "locked"
              /\ (th[t].pc = "locked" /\ th'[t] # th[t]) =>
                     /\ clients' = [clients EXCEPT ![k].balance =
                                        (@ - th[t].amount) + th[t].amount]
                     /\ th'[t].pc = "unlock_write"
              /\ (th[t].pc = "unlock_write" /\ th'[t] # th[t]) =>
                     /\ ~writer_active'[k]
                     /\ th'[t].pc = "idle" /\ th'[t].result = "true"]_vars

\* a pair operation on one key is in its callback, holding the entry, while
\* another thread waits for the same entry's write lock
C31_Witness ==
    \E t, u \in Threads :
        /\ PairOnOne(t) /\ th[t].pc = "locked"
        /\ th[u].pc = "wait_write" /\ Head(th[u].todo) = th[t].key1

\* the threads between lock_read and unlock_read of entry k
ReadersOf(k) == {t \in Threads : th[t].pc \in {"copy", "unlock_read"} /\ th[t].key1 = k}

\* the threads between lock_write and unlock_write of entry k
WritersOf(k) == {t \in Threads : k \in HeldBy(t)}

\* the threads blocked inside lock_write of entry k
WaitingOn(k) == {t \in Threads : th[t].pc = "wait_write" /\ Head(th[t].todo) = k}

\* C40: for every entry, active_readers is the number of threads between
\* lock_read and unlock_read, writer_active holds iff a thread is between
\* lock_write and unlock_write, and waiting_writers is the number of threads
\* blocked inside lock_write; so all three are 0/false when no map operation
\* is in progress.
C40_LockBookkeeping ==
    /\ \A k \in IPs :
          /\ active_readers[k] = Cardinality(ReadersOf(k))
          /\ writer_active[k] <=> WritersOf(k) # {}
          /\ waiting_writers[k] = Cardinality(WaitingOn(k))
    /\ InCall = {} =>
          \A k \in IPs : active_readers[k] = 0 /\ ~writer_active[k] /\ waiting_writers[k] = 0

\* a reader is about to release an entry that a writer waits for
C40_Witness ==
    \E t, u \in Threads : \E k \in IPs :
        /\ th[t].pc = "unlock_read" /\ t \in ReadersOf(k)
        /\ u \in WaitingOn(k)
        /\ active_readers[k] = 1 /\ waiting_writers[k] = 1

\* ---------------------------------------------------- claims on SpecServer
DiscoveryAck(c, request_id, balance) ==
    [from |-> ServerAddr, to |-> c,
     packet |-> [type |-> "CLIENT_DISCOVERY_ACK", request_id |-> request_id,
                 new_balance |-> balance]]

\* C15: records are only ever added; a record for IP c appears only in the step
\* of a discovery handler for c that found none, with request id 0 and balance
\* INITIAL_BALANCE; exactly that handler then adds INITIAL_BALANCE to
\* total_balance and replies CLIENT_DISCOVERY_ACK (0, INITIAL_BALANCE), and
\* total_balance changes in no other step.
C15_FirstDiscovery ==
    [][/\ DOMAIN clients \subseteq DOMAIN clients'
       /\ \A c \in IPs :
            (c \in DOMAIN clients' /\ c \notin DOMAIN clients)
                => /\ clients'[c] = [last_processed_request_id |-> 0,
                                     balance |-> CLIENT_INITIAL_BALANCE]
                   /\ \E w \in Workers : /\ wk[w].pc = "idle" /\ wk'[w].pc = "registered"
                                          /\ wk'[w].client_addr = c
       /\ \A w \in Workers :
            (wk[w].pc # "registered" /\ wk'[w].pc = "registered")
                => /\ wk'[w].client_addr \notin DOMAIN clients
                   /\ wk'[w].client_addr \in DOMAIN clients'
       /\ \A w \in Workers :
            (wk[w].pc = "registered" /\ wk'[w] # wk[w])
                => /\ s_total_balance' = s_total_balance + CLIENT_INITIAL_BALANCE
                   /\ replies' = replies \cup
                         {DiscoveryAck(wk[w].client_addr, 0, CLIENT_INITIAL_BALANCE)}
                   /\ clients' = clients
       /\ s_total_balance' # s_total_balance
            => \E w \in Workers : wk[w].pc = "registered" /\ wk'[w].pc = "idle"]_vars

\* an IP was registered and acknowledged once while a second discovery datagram
\* from the same IP is being served
C15_Witness ==
    \E c \in IPs : \E w \in Workers :
        /\ DOMAIN clients = {c}
        /\ s_total_balance = CLIENT_INITIAL_BALANCE
        /\ DiscoveryAck(c, 0, CLIENT_INITIAL_BALANCE) \in replies
        /\ wk[w].pc = "known" /\ wk[w].client_addr = c

\* C16: a discovery handler for an IP that has a record takes the known-client
\* path; neither of its steps changes a client record or a statistic, and it
\* replies CLIENT_DISCOVERY_ACK with the record's current
\* last_processed_request_id and balance.
C16_DiscoveryIdempotent ==
    [][\A w \in Workers :
         /\ (/\ wk[w].pc = "idle" /\ wk'[w].pc # "idle"
             /\ wk'[w].packet.type = "CLIENT_DISCOVERY"
             /\ wk'[w].client_addr \in DOMAIN clients)
                => /\ wk'[w].pc = "known"
                   /\ clients' = clients
                   /\ statVars' = statVars
         /\ (wk[w].pc = "known" /\ wk'[w] # wk[w])
                => LET c == wk[w].client_addr
                   IN  /\ clients' = clients
                       /\ statVars' = statVars
                       /\ replies' = replies \cup
                             {DiscoveryAck(c, clients[c].last_processed_request_id,
                                           clients[c].balance)}]_vars

\* a repeated discovery was answered with a record that is no longer the
\* initial one: request id 1 and balance 40 after a transfer of 60
C16_Witness ==
    \E c \in IPs :
        /\ DiscoveryAck(c, 1, 40) \in replies
        /\ clients[c] = [last_processed_request_id |-> 1, balance |-> 40]

TransactionReply(c, type, request_id, balance) ==
    [from |-> ServerAddr, to |-> c,
     packet |-> [type |-> type, request_id |-> request_id, new_balance |-> balance]]

\* the request a worker is serving, judged on the records as they are now
Outcome(w) == Validate(clients, wk[w].client_addr, wk[w].packet, clients[wk[w].client_addr])

\* what the handler of w decides from the copy of the source record it holds
Decision(w) == Validate(clients, wk[w].client_addr, wk[w].packet, wk[w].src_client)

\* worker w takes its step from program point pc
StepFrom(w, pc) == wk[w].pc = pc /\ wk'[w] # wk[w]

\* the step of w sets last_processed_request_id of its source to the request id
\* and changes nothing else in the map
OnlyRequestIdChanges(w) ==
    /\ DOMAIN clients' = DOMAIN clients
    /\ \A c \in DOMAIN clients :
          /\ clients'[c].balance = clients[c].balance
          /\ clients'[c].last_processed_request_id =
                IF c = wk[w].client_addr THEN wk[w].packet.request_id
                ELSE clients[c].last_processed_request_id

\* the atomic_pair_operation step and the statistics step of a transfer
TransferSteps(w) ==
    LET S == wk[w].client_addr
        D == wk[w].packet.destination_ip
        R == wk[w].packet.request_id
        V == wk[w].packet.value
    IN  /\ (StepFrom(w, "transfer") /\ Outcome(w) = "transfer")
               => /\ clients'[S].balance = clients[S].balance - V
                  /\ clients'[D].balance = clients[D].balance + V
                  /\ DOMAIN clients' = DOMAIN clients
                  /\ \A c \in DOMAIN clients :
                        /\ clients'[c].last_processed_request_id
                              = clients[c].last_processed_request_id
                        /\ c \notin {S, D} => clients'[c] = clients[c]
                  /\ statVars' = statVars
                  /\ replies' = replies
                  /\ wk'[w].pc = "statistics"
                  /\ wk'[w].client_new_balance = clients[S].balance - V
        /\ StepFrom(w, "statistics")
               => /\ s_num_transactions' = s_num_transactions + 1
                  /\ s_total_transferred' = s_total_transferred + V
                  /\ s_total_balance' = s_total_balance
                  /\ clients' = clients
                  /\ replies' = replies \cup
                        {TransactionReply(S, "TRANSACTION_ACK", R, wk[w].client_new_balance)}

\* C17: a non-duplicate request (S, D, R, V) with S and D registered, S # D, V > 0
\* and balance(S) >= V changes the records only by taking V from balance(S), adding
\* V to balance(D) and setting last_processed_request_id(S) to R; it adds 1 to
\* num_transactions and V to total_transferred, leaves total_balance alone and is
\* answered with TRANSACTION_ACK (R, balance(S) after the debit).
C17_SuccessfulTransfer ==
    [][\A w \in Workers :
         /\ (StepFrom(w, "claim") /\ wk[w].packet.value > 0 /\ Outcome(w) = "transfer")
                => OnlyRequestIdChanges(w) /\ statVars' = statVars
         /\ TransferSteps(w)]_vars

\* the reply of a request that is answered without a transfer
AnsweredWith(w, type) ==
    /\ clients' = clients
    /\ statVars' = statVars
    /\ replies' = replies \cup
          {TransactionReply(wk[w].client_addr, type, wk[w].packet.request_id,
                            clients[wk[w].client_addr].balance)}

\* C18: a request with V > 0 that fails the handler's validation (destination not
\* registered, or S # D registered and balance(S) < V) changes nothing on the server except
\* last_processed_request_id(S) := R, and is answered INVALID_CLIENT_ACK or
\* INSUFFICIENT_BALANCE_ACK respectively, carrying (R, balance(S)).
C18_FailedValidation ==
    [][\A w \in Workers :
         (wk[w].packet.value > 0
            /\ wk[w].pc \in {"claim", "validate"}
            /\ Decision(w) \in {"INVALID_CLIENT_ACK", "INSUFFICIENT_BALANCE_ACK"})
         => /\ StepFrom(w, "claim") => OnlyRequestIdChanges(w) /\ statVars' = statVars
            /\ StepFrom(w, "validate") => AnsweredWith(w, Decision(w))]_vars

\* C19: serving a TRANSACTION_REQUEST whose source IP has no record sends
\* ERROR_ACK (the request's id, balance 0) to the source and changes no record
\* and no statistic; in particular the source gets no record.
C19_UnknownSource ==
    [][\A d \in BagToSet(requests) :
         (/\ requests' = requests (-) SetToBag({d})
          /\ d.packet.type = "TRANSACTION_REQUEST"
          /\ d.from \notin DOMAIN clients)
         => /\ clients' = clients
            /\ statVars' = statVars
            /\ wk' = wk
            /\ replies' = replies \cup
                  {TransactionReply(d.from, "ERROR_ACK", d.packet.request_id, 0)}]_vars

\* an unregistered IP has been answered ERROR_ACK (2, 0) next to a registered client
C19_Witness ==
    \E c \in IPs :
        /\ c \notin DOMAIN clients
        /\ DOMAIN clients # {}
        /\ TransactionReply(c, "ERROR_ACK", 2, 0) \in replies

\* C20: a non-duplicate request with destination = source and V > 0, V above
\* balance(S) included, changes no balance and no statistic, sets only
\* last_processed_request_id(S) to R and is answered TRANSACTION_ACK (R, balance(S)).
C20_SelfTransfer ==
    [][\A w \in Workers :
         (wk[w].packet.value > 0
            /\ wk[w].pc \in {"claim", "validate"}
            /\ wk[w].packet.destination_ip = wk[w].client_addr)
         => /\ StepFrom(w, "claim") => OnlyRequestIdChanges(w) /\ statVars' = statVars
            /\ StepFrom(w, "validate") => AnsweredWith(w, "TRANSACTION_ACK")]_vars

\* C21: a non-duplicate request with V = 0 from a registered source, whatever its
\* destination, changes no balance and no statistic, sets
\* last_processed_request_id(S) to R and is answered TRANSACTION_ACK (R, balance(S)).
C21_ZeroValue ==
    [][\A w \in Workers :
         (StepFrom(w, "claim") /\ wk[w].packet.value = 0)
         => /\ OnlyRequestIdChanges(w)
            /\ statVars' = statVars
            /\ wk'[w].pc = "idle"
            /\ replies' = replies \cup
                  {TransactionReply(wk[w].client_addr, "TRANSACTION_ACK",
                                    wk[w].packet.request_id,
                                    clients'[wk[w].client_addr].balance)}]_vars

\* no transfer out of the record of c has run: whatever changed balance(c) was
\* a credit by a transfer of another client
OnlyCredited(c) == \A r \in 1..MaxRequestId : applied[c][r] = 0

\* C29: the commit-point write of a handler changes only
\* last_processed_request_id of the source's record: balance(S) right after the
\* write is balance(S) right before it, whatever transfers of other clients
\* credited to S since this handler read the record, and no other record changes.
C29_CommitWriteFrame ==
    [][\A w \in Workers :
          (StepFrom(w, "claim") /\ OnlyCredited(wk[w].client_addr)) =>
              LET S == wk[w].client_addr
              IN  /\ clients'[S].balance = clients[S].balance
                  /\ clients'[S].last_processed_request_id = wk[w].packet.request_id
                  /\ \A c \in DOMAIN clients \ {S} : clients'[c] = clients[c]]_vars

\* C36: the debit of the pair operation runs only when the source's balance
\* at that moment is at least V, so no balance wraps around below 0.
C36_NoUnderflow ==
    [][\A w \in Workers :
          StepFrom(w, "transfer") =>
              /\ ~U32Less(clients[wk[w].client_addr].balance, wk[w].packet.value)
              /\ clients'[wk[w].client_addr].balance >= 0]_vars

\* request (c, r) has been committed: the server has sent a reply other than
\* ERROR_ACK for it, which it does only after the commit-point write or after
\* finding r at or below the committed id
Committed(c, r) ==
    first_reply[c][r] # NoPacket /\ first_reply[c][r].type # "ERROR_ACK"

\* C22: a datagram of an already committed request is not evaluated again: the
\* worker that takes it changes no record and no statistic, goes through no
\* validation and answers TRANSACTION_ACK (last_processed_request_id(S), balance(S)),
\* whatever the first reply was.
C22_DuplicateNotReevaluated ==
    [][\A d \in BagToSet(requests) :
         (/\ requests' = requests (-) SetToBag({d})
          /\ d.packet.type = "TRANSACTION_REQUEST"
          /\ d.from \in DOMAIN clients
          /\ Committed(d.from, d.packet.request_id))
         => /\ wk' = wk
            /\ clients' = clients
            /\ statVars' = statVars
            /\ replies' = replies \cup
                  {TransactionReply(d.from, "TRANSACTION_ACK",
                                    clients[d.from].last_processed_request_id,
                                    clients[d.from].balance)}]_vars

\* the id of the request client c issued last (0 before the first one)
LastIssued(c) ==
    IF cl[c].pc = "wait" THEN cl[c].next_request_id ELSE cl[c].next_request_id - 1

\* the network thread of c clears the pending id: it accepts response_packet
Accepts(c) == cl[c].net = "matched" /\ cl'[c].net = "receive"

\* the reply packet was sent to c in answer to a datagram of request r
AnswerTo(c, r, packet) ==
    [to |-> c, request_id |-> r, packet |-> packet] \in answered

\* C23: every reply sent to a client carries the id of its current request or of
\* an older one, and when the client accepts a reply as the acknowledgement of
\* its pending request, the server sent that reply in answer to a datagram of
\* that request, not of an older one.
C23_StaleReplyRejected ==
    [][\A c \in IPs :
         /\ \A d \in replies : d.to = c => d.packet.request_id <= LastIssued(c)
         /\ (Accepts(c) /\ cl[c].pending_ack_request_id # 0)
               => AnswerTo(c, cl[c].pending_ack_request_id, cl[c].response_packet)]_vars

\* the main thread of client c takes a step inside send_request
SenderStep(c) ==
    /\ cl[c].pc = "wait"
    /\ cl'[c].pc # cl[c].pc \/ cl'[c].sends # cl[c].sends

\* the pending id of c is still the id of the request being sent
PendingStill(c) ==
    cl[c].pending_ack_request_id = cl[c].pending_request_packet.request_id

\* the step retransmits the stored packet and stays in send_request
Retransmits(c) ==
    /\ requests' = requests (+) SetToBag({Datagram(c, cl[c].server_addr, cl[c].pending_request_packet)})
    /\ cl'[c].pc = "wait"
    /\ cl'[c].pending_ack_request_id = cl[c].pending_ack_request_id
    /\ cl'[c].pending_request_packet = cl[c].pending_request_packet

\* C24 as claimed: the sender returns from send_request only when the pending id
\* has been cleared, and at every wakeup with the pending id still R it does
\* nothing but retransmit the identical packet: it never gives the request up.
C24_StopAndWaitNeverGivesUp ==
    [][\A c \in IPs :
         SenderStep(c) =>
            IF PendingStill(c) THEN Retransmits(c)
            ELSE /\ cl[c].pending_ack_request_id = 0
                 /\ cl'[c].pc = "input"
                 /\ requests' = requests]_vars

\* C24 as amended: at a wakeup with the pending id still R the sender retransmits
\* the identical packet and stays in send_request, unless the socket send fails:
\* then it sends nothing, clears the pending id itself and returns.  It returns
\* otherwise only when the pending id was cleared, and whenever it returns the
\* pending id is 0 and the next request id is R + 1.
C24_StopAndWait ==
    [][\A c \in IPs :
         SenderStep(c) =>
            /\ IF PendingStill(c)
               THEN \/ Retransmits(c)
                    \/ /\ requests' = requests
                       /\ cl'[c].pc = "input"
               ELSE /\ cl[c].pending_ack_request_id = 0
                    /\ cl'[c].pc = "input"
                    /\ requests' = requests
            /\ cl'[c].pc = "input"
                  => /\ cl'[c].pending_ack_request_id = 0
                     /\ cl'[c].next_request_id = cl[c].pending_request_packet.request_id + 1]_vars

\* a request is pending after a retransmission: two copies of it are in flight
C24_Witness ==
    \E c \in IPs :
        /\ cl[c].pc = "wait"
        /\ cl[c].pending_ack_request_id = cl[c].pending_request_packet.request_id
        /\ CopiesIn(Datagram(c, cl[c].server_addr, cl[c].pending_request_packet), requests) = 2

\* the socket send of the pending request of c fails in this step: the first
\* send of a new line, or a retransmission
SendFails(c) ==
    \/ cl[c].pc = "input" /\ cl'[c].pending_request_packet # cl[c].pending_request_packet
                          /\ requests' = requests
    \/ cl[c].pc = "wait" /\ PendingStill(c) /\ cl'[c].pc # "wait"

\* C35: when the socket send of the pending request R fails, the sender clears
\* the pending id and returns without sending anything; the stored packet is
\* that of R, the input loop is back at reading a line and the next request id
\* is R + 1.
C35_SendFailure ==
    [][\A c \in IPs :
         SendFails(c) =>
            /\ cl'[c].pending_ack_request_id = 0
            /\ requests' = requests
            /\ cl'[c].sends = cl[c].sends
            /\ cl'[c].pc = "input"
            /\ cl'[c].pending_request_packet.request_id = cl[c].next_request_id
            /\ cl'[c].next_request_id = cl[c].next_request_id + 1]_vars

\* request 2 of a client is pending and on its way although the only datagram
\* the client sent before was its discovery: the send of request 1 failed
C35_Witness ==
    \E c \in IPs :
        /\ cl[c].pc = "wait" /\ cl[c].sends = 2
        /\ cl[c].pending_ack_request_id = 2
        /\ cl[c].pending_request_packet.request_id = 2

\* C37: when the receiver clears the pending id of a request, the request_id of
\* the reply it is handling is that pending id: a request that became pending
\* after the receiver's id comparison is not cleared by that reply.
C37_ClearsOnlyMatching ==
    [][\A c \in IPs :
         (Accepts(c) /\ cl[c].pending_ack_request_id # 0)
            => cl[c].pending_ack_request_id = cl[c].response_packet.request_id]_vars

\* client c accepts a TRANSACTION_ACK carrying the id of its pending request,
\* a transfer of V > 0 to a registered client other than itself
AcceptsTransferAck(c) ==
    /\ Accepts(c)
    /\ cl[c].response_packet.type = "TRANSACTION_ACK"
    /\ cl[c].pending_ack_request_id # 0
    /\ cl[c].response_packet.request_id = cl[c].pending_ack_request_id
    /\ cl[c].pending_request_packet.request_id = cl[c].pending_ack_request_id
    /\ cl[c].pending_request_packet.value > 0
    /\ cl[c].pending_request_packet.destination_ip \in Registered \ {c}

\* C38: when a client accepts a TRANSACTION_ACK for its pending request R with
\* V > 0 and a registered destination other than itself, the transfer of R has
\* been applied at the server exactly once.
C38_AckImpliesApplied ==
    [][\A c \in IPs :
         AcceptsTransferAck(c) => applied[c][cl[c].pending_ack_request_id] = 1]_vars

\* the TRANSACTION_REQUEST datagrams of client c that are in flight
InFlight(c) ==
    {d \in BagToSet(requests) : d.from = c /\ d.packet.type = "TRANSACTION_REQUEST"}

RunOver ==
    /\ \A c \in IPs : cl[c].pc # "wait" /\ cl[c].pending_ack_request_id = 0
                       /\ cl[c].net = "receive"
    /\ \A w \in Workers : wk[w].pc = "idle"
    /\ requests = EmptyBag

\* the requests client c accepted a TRANSACTION_ACK for
AcksOf(c) == {line \in cl[c].printed : line.type = "TRANSACTION_ACK"}

\* the number of requests for which a client accepted a TRANSACTION_ACK
AcceptedAcks == LET n[S \in SUBSET IPs] ==
                      IF S = {} THEN 0
                      ELSE LET c == CHOOSE x \in S : TRUE
                           IN  n[S \ {c}] + Cardinality(AcksOf(c))
                IN  n[IPs]

\* C28: when the run is over (every request acknowledged, no worker active),
\* num_transactions is the number of requests for which a client accepted a
\* reply of type TRANSACTION_ACK.
C28_TransactionsCounted ==
    RunOver =>
        s_num_transactions = AcceptedAcks

\* C32: a datagram whose request_id differs from the pending id is ignored by
\* the receiver thread: the receiver takes up a datagram only if its id equals
\* the pending id, taking it up changes neither the pending id nor the stored
\* packet nor the output, and while the receiver has taken up nothing the
\* output does not change and the pending id is changed by the sender only.
C32_MismatchIgnored ==
    [][\A c \in IPs :
         /\ (cl[c].net = "receive" /\ cl'[c].net = "matched") =>
                /\ cl'[c].response_packet.request_id = cl[c].pending_ack_request_id
                /\ Datagram(cl[c].server_addr, c, cl'[c].response_packet) \in replies
                /\ cl'[c].pending_ack_request_id = cl[c].pending_ack_request_id
                /\ cl'[c].pending_request_packet = cl[c].pending_request_packet
                /\ cl'[c].printed = cl[c].printed
                /\ cl'[c].pc = cl[c].pc
         /\ (cl[c].net = "receive" /\ cl'[c].net = "receive") =>
                /\ cl'[c].printed = cl[c].printed
                /\ cl'[c].pending_ack_request_id # cl[c].pending_ack_request_id =>
                      cl[c].pc \in {"input", "wait"} /\ cl'[c].pc # cl[c].pc]_vars

\* request 2 of a client is pending and unanswered while the reply to its
\* request 1, which it accepted and printed, is still there to be received
C32_Witness ==
    \E c \in IPs :
        /\ cl[c].pc = "wait" /\ cl[c].net = "receive"
        /\ cl[c].pending_ack_request_id = 2
        /\ \E line \in cl[c].printed : line.id = 1
        /\ \E d \in replies : d.to = c /\ d.packet.request_id = 1
        /\ \A d \in replies : d.to = c => d.packet.request_id # 2

\* C33: after a reply matched the pending id the receiver clears the pending
\* id and produces the output before the sender can store the next request:
\* between the clearing and the output the stored packet does not change, and
\* the line printed for the TRANSACTION_ACK to request R shows R's packet.
C33_OutputFromOwnRequest ==
    [][\A c \in IPs :
         (cl[c].net = "print" /\ cl[c].response_packet.request_id # 0) =>
            /\ cl'[c].pending_request_packet = cl[c].pending_request_packet
            /\ \A line \in cl'[c].printed \ cl[c].printed :
                  line.type = "TRANSACTION_ACK" => line.request.request_id = line.id]_vars

\* ------------------------------------------------------- claims on SpecLog
\* worker w prints its request line in this step
Logs(w) == wk[w].pc \in {"log_request", "log_duplicate"} /\ wk'[w].pc = "idle"

\* the statistics triple on the request line of worker w
LoggedTriple(w) ==
    <<wk[w].line["num_transactions"], wk[w].line["total_transferred"],
      wk[w].line["total_balance"]>>

\* C34: the statistics change only in the locked update of a discovery or a
\* transfer, and every request line shows a triple (num_transactions,
\* total_transferred, total_balance) that the three fields held together at
\* one instant.
C34_ConsistentStatisticsLines ==
    [][/\ statVars' # statVars =>
            \E w \in Workers : wk[w].pc \in {"registered", "statistics"} /\ wk'[w] # wk[w]
       /\ \A w \in Workers : Logs(w) => LoggedTriple(w) \in stats_history]_vars

\* ---------------------------------------------------- claims on SpecClient
\* the datagrams added to the network by the step
NewlySent == BagToSet(requests' (-) requests)

\* the CLIENT_DISCOVERY datagram of client c
Discovery(c) == Datagram(c, ServerAddr, create_request("CLIENT_DISCOVERY", 0, 0, 0))

\* C27: a client in the discovery loop leaves it only in a step that receives a
\* CLIENT_DISCOVERY_ACK addressed to it, and its server address is then the
\* source of that packet; in every other step it stays in discovery without a
\* server address, the only datagram it sends is CLIENT_DISCOVERY with
\* request_id 0, and sending that one again is what it can do next.
C27_NoPartialDiscovery ==
    [][\A c \in IPs : cl[c].pc = "discover" =>
          /\ cl'[c].pc # "discover" =>
                \E d \in replies :
                    /\ d.to = c /\ d.packet.type = "CLIENT_DISCOVERY_ACK"
                    /\ cl'[c].server_addr = d.from
          /\ Sent < MaxSends => ENABLED DiscoverSend(c)
          /\ cl'[c].pc = "discover" => cl'[c].server_addr = AnyAddr
          /\ \A d \in NewlySent : d.from = c =>
                d = Discovery(c) /\ d.packet.request_id = 0]_vars

\* a client that had received a TRANSACTION_ACK and sent CLIENT_DISCOVERY twice
\* has taken the CLIENT_DISCOVERY_ACK of the other host: that host is its server
C27_Witness ==
    \E c \in IPs :
        /\ cl[c].pc # "discover" /\ cl[c].server_addr = OtherHost
        /\ CopiesIn(Discovery(c), requests) >= 2
        /\ \E d \in replies : d.to = c /\ d.packet.type = "TRANSACTION_ACK"
        /\ \A d \in replies : d.packet.type = "CLIENT_DISCOVERY_ACK" => d.from = OtherHost

\* ---------------------------------------------------- claims on SpecListen
\* C26: a datagram that reaches the server is handed to a worker if and only if
\* its length is exactly sizeof(Packet); a shorter or longer one is dropped:
\* nothing is queued for a worker, no reply is sent and no server state changes.
C26_ExactSizeOnly ==
    [][\A len \in DatagramLengths :
         arrived'[len] = arrived[len] + 1
         => IF len = PacketSize
            THEN \E d \in ListenDatagrams : requests' = requests (+) SetToBag({d})
            ELSE /\ requests' = requests
                 /\ wk' = wk /\ replies' = replies
                 /\ clients' = clients /\ statVars' = statVars]_vars

\* ----------------------------------------------------- claims on SpecLive
\* the receiver thread of client c has matched a reply that carries the id r of
\* the pending request and is about to clear it
ClearedByMatch(c, r) ==
    /\ cl[c].net = "matched"
    /\ cl[c].response_packet.request_id = r
    /\ cl[c].pending_ack_request_id = r

\* C39: for a discovered client whose sends never fail, over a channel that
\* loses and duplicates datagrams but keeps delivering, every request stored
\* as pending is eventually cleared by a reply that carries its id.
C39_EventualAck ==
    \A r \in 1..MaxLiveLines :
        (cl[Payer].pending_ack_request_id = r) ~> ClearedByMatch(Payer, r)

\* ------------------------------------------------------- claims on SpecRW
\* C11: lock_read completes (active_readers is incremented) only in a state
\* where the entry has no active writer and no waiting writer.
C11_WriterPreference ==
    [][\A k \in IPs :
            active_readers'[k] > active_readers[k]
                => (~writer_active[k] /\ waiting_writers[k] = 0)]_vars

\* a reader is held back by a waiting writer alone: the entry is read-locked,
\* no writer is active, a writer waits, and a new reader stands in lock_read
C11_Witness ==
    \E t \in DOMAIN th :
        /\ th[t].pc = "lock_read"
        /\ ~writer_active[th[t].key1]
        /\ waiting_writers[th[t].key1] > 0
        /\ active_readers[th[t].key1] > 0

\* C12: under fair scheduling of the threads inside calls, whenever a writer
\* waits on an entry the write lock of that entry is eventually held by a
\* writer, however many readers keep arriving.
C12_NoWriterStarvation ==
    \A k \in IPs : (waiting_writers[k] > 0) ~> writer_active[k]

\* a writer holds the entry while two readers that arrived stand in lock_read
C12_Witness ==
    \E t, u, v \in DOMAIN th :
        /\ u # v
        /\ th[t].pc = "locked" /\ th[u].pc = "lock_read" /\ th[v].pc = "lock_read"
        /\ th[u].key1 = th[t].key1 /\ th[v].key1 = th[t].key1

====
